---- MODULE Spec2Model ----
(***************************************************************************)
(* Model of after-consultation-emails/api/index.py: the POST /api handler  *)
(* consultation_summary with its generator event_stream (the stream        *)
(* relay), and the GET /{full_path:path} handler serve_nextjs_app.         *)
(*                                                                         *)
(* A Python str is modelled as a sequence of one-character strings, so     *)
(* that str.split, str.startswith and the f-string framing are computed    *)
(* character by character.                                                 *)
(***************************************************************************)
EXTENDS Integers, Sequences, FiniteSets, TLC

VARIABLES
    pc,         \* position of the POST /api request / of the generator
    verdict,    \* outcome of the clerk_guard dependency for this request
    creates,    \* number of client.chat.completions.create invocations
    consumed,   \* delta.content of every chunk the stream has delivered
    text,       \* event_stream's local `text`
    lines,      \* event_stream's local `lines`
    idx,        \* 1-based position of `line` in the loop over lines[:-1]
    suspended,  \* the generator is parked at a yield (or not started yet)
    out,        \* the frames yielded to the StreamingResponse, in order
    org,        \* for each yielded frame: the chunk, line and yield it is from
    fs,         \* static directory: kind of the entry static/<path>
    holds,      \* static directory: whether static/<path>/index.html exists
    full_path,  \* path of the last GET request
    resp        \* what the last GET request returned

relayVars == <<pc, verdict, creates, consumed, text, lines, idx, suspended, out, org>>
staticVars == <<fs, holds, full_path, resp>>
vars == <<pc, verdict, creates, consumed, text, lines, idx, suspended, out, org,
          fs, holds, full_path, resp>>

----
(* Bounds of the model *)

\* longest fragment text drawn from the alphabet
MaxLen == 2

\* largest number of chunks the completion stream delivers
MaxFrags == 2

----
(* Strings *)

NL == "\n"

Alphabet == {"A", " ", NL}

Strings(n) == UNION {[1..k -> Alphabet] : k \in 0..n}

\* delta.content of a chunk that carries no content
None == <<"None">>

\* the fragment "A\nB\nC"
ExampleFragment == <<"A", NL, "B", NL, "C">>

\* what chunk.choices[0].delta.content can be
Fragments == Strings(MaxLen) \cup {None, ExampleFragment}

\* variant of Truthy: `if text is not None:`
NotNone(t) == t # None

\* Python truthiness of `text`: neither None nor ""
Truthy(t) == t # None /\ t # <<>>

\* s.startswith(prefix)
StartsWith(s, prefix) ==
    /\ Len(s) >= Len(prefix)
    /\ SubSeq(s, 1, Len(prefix)) = prefix

HasNL(s) == \E i \in 1..Len(s) : s[i] = NL

FirstNL(s) == CHOOSE i \in 1..Len(s) : s[i] = NL /\ \A j \in 1..(i - 1) : s[j] # NL

\* text.split("\n") with a copy of its own recursion
RECURSIVE SplitKeep(_)
SplitKeep(s) ==
    IF ~HasNL(s) THEN <<s>>
    ELSE LET p == FirstNL(s)
         IN  <<SubSeq(s, 1, p - 1)>> \o SplitKeep(SubSeq(s, p + 1, Len(s)))

\* variant of Split: text.splitlines(), which drops the empty line after a
\* final newline
SplitLines(s) ==
    LET ls == SplitKeep(s)
    IN  IF Len(ls) > 1 /\ ls[Len(ls)] = <<>> THEN SubSeq(ls, 1, Len(ls) - 1) ELSE ls

\* text.split("\n")
RECURSIVE Split(_)
Split(s) ==
    IF ~HasNL(s) THEN <<s>>
    ELSE LET p == FirstNL(s)
         IN  <<SubSeq(s, 1, p - 1)>> \o Split(SubSeq(s, p + 1, Len(s)))

\* "data: "
DataPrefix == <<"d", "a", "t", "a", ":", " ">>

\* f"data: {line}\n\n"
LineFrame(line) == DataPrefix \o line \o <<NL, NL>>

\* "data:  \n"
SyntheticFrame == DataPrefix \o <<" ", NL>>

\* the frames the body of `if text:` yields for one truthy text
RECURSIVE LoopFrames(_, _)
LoopFrames(ls, i) ==
    IF i >= Len(ls) THEN <<LineFrame(ls[Len(ls)])>>
    ELSE <<LineFrame(ls[i]), SyntheticFrame>> \o LoopFrames(ls, i + 1)

FramesOf(t) == LoopFrames(Split(t), 1)

----
(* POST /api: consultation_summary and its generator event_stream *)

\* what clerk_guard can do with the bearer credential: raise (reject), or
\* return credentials whose decoded claims hold "sub" (accept) or not (nosub)
Verdicts == {"accept", "reject", "nosub"}

\* program positions at which the request is over
Finished == pc \in {"declined", "error", "done", "failed", "closed"}

\* variant of Verify: the verdict is recorded and the handler goes on to the
\* Completion Source whatever it is
VerifyUngated ==
    /\ pc = "request"
    /\ \E v \in Verdicts : verdict' = v
    /\ pc' = "create"
    /\ UNCHANGED <<creates, consumed, text, lines, idx, suspended, out, org, staticVars>>

\* Depends(clerk_guard): resolved before the handler body runs
Verify ==
    /\ pc = "request"
    /\ \E v \in Verdicts :
         /\ verdict' = v
         /\ pc' = IF v = "reject" THEN "declined" ELSE "handler"
    /\ UNCHANGED <<creates, consumed, text, lines, idx, suspended, out, org, staticVars>>

\* user_id = creds.decoded["sub"]: KeyError when the claim is missing
Subject ==
    /\ pc = "handler"
    /\ pc' = IF verdict = "accept" THEN "create" ELSE "error"
    /\ UNCHANGED <<verdict, creates, consumed, text, lines, idx, suspended, out, org, staticVars>>

\* client.chat.completions.create(..., stream=True), then
\* StreamingResponse(event_stream(), ...): the generator exists, not started
Create ==
    /\ pc = "create"
    /\ creates' = creates + 1
    /\ pc' = "pull"
    /\ suspended' = TRUE
    /\ UNCHANGED <<verdict, consumed, text, lines, idx, out, org, staticVars>>

\* create raises (provider error) before any stream exists
CreateRaise ==
    /\ pc = "create"
    /\ creates' = creates + 1
    /\ pc' = "error"
    /\ UNCHANGED <<verdict, consumed, text, lines, idx, suspended, out, org, staticVars>>

\* variant of NextChunk: the next chunk is fetched while lines of the
\* current one are still to be yielded
NextChunkPrefetch(c) ==
    /\ pc \in {"pull", "loop"}
    /\ Len(consumed) < MaxFrags
    /\ consumed' = Append(consumed, c)
    /\ text' = c
    /\ suspended' = FALSE
    /\ pc' = "test"
    /\ UNCHANGED <<verdict, creates, lines, idx, out, org, staticVars>>

\* `for chunk in stream`: the stream delivers a chunk;
\* text = chunk.choices[0].delta.content
NextChunk(c) ==
    /\ pc = "pull"
    /\ Len(consumed) < MaxFrags
    /\ consumed' = Append(consumed, c)
    /\ text' = c
    /\ suspended' = FALSE
    /\ pc' = "test"
    /\ UNCHANGED <<verdict, creates, lines, idx, out, org, staticVars>>

\* variant of StreamEnd: a closing frame "data: [DONE]\n\n" is yielded
StreamEndDoneFrame ==
    /\ pc = "pull"
    /\ pc' = "done"
    /\ out' = Append(out, LineFrame(<<"[", "D", "O", "N", "E", "]">>))
    /\ org' = Append(org, [frag |-> Len(consumed), line |-> 0, kind |-> "line"])
    /\ suspended' = FALSE
    /\ UNCHANGED <<verdict, creates, consumed, text, lines, idx, staticVars>>

\* `for chunk in stream`: StopIteration, the generator returns
StreamEnd ==
    /\ pc = "pull"
    /\ pc' = "done"
    /\ suspended' = FALSE
    /\ UNCHANGED <<verdict, creates, consumed, text, lines, idx, out, org, staticVars>>

\* variant of StreamRaise: the error is caught and reported to the client
\* in a frame "data: [ERROR]\n\n"
StreamRaiseErrorFrame ==
    /\ pc = "pull"
    /\ pc' = "failed"
    /\ out' = Append(out, LineFrame(<<"[", "E", "R", "R", "O", "R", "]">>))
    /\ org' = Append(org, [frag |-> Len(consumed), line |-> 0, kind |-> "line"])
    /\ suspended' = FALSE
    /\ UNCHANGED <<verdict, creates, consumed, text, lines, idx, staticVars>>

\* `for chunk in stream`: the stream raises; nothing catches it
StreamRaise ==
    /\ pc = "pull"
    /\ pc' = "failed"
    /\ suspended' = FALSE
    /\ UNCHANGED <<verdict, creates, consumed, text, lines, idx, out, org, staticVars>>

\* variant of Test: the text is passed through whole, lines = [text]
TestWholeText ==
    /\ pc = "test"
    /\ IF Truthy(text)
       THEN /\ lines' = <<text>>
            /\ idx' = 1
            /\ pc' = "loop"
       ELSE /\ pc' = "pull"
            /\ UNCHANGED <<lines, idx>>
    /\ UNCHANGED <<verdict, creates, consumed, text, suspended, out, org, staticVars>>

\* `if text:` and, when it holds, lines = text.split("\n")
Test ==
    /\ pc = "test"
    /\ IF Truthy(text)
       THEN /\ lines' = Split(text)
            /\ idx' = 1
            /\ pc' = "loop"
       ELSE /\ pc' = "pull"
            /\ UNCHANGED <<lines, idx>>
    /\ UNCHANGED <<verdict, creates, consumed, text, suspended, out, org, staticVars>>

\* variant of YieldLine: no blank-continuation frame follows the line
YieldLineNoMarker ==
    /\ pc = "loop"
    /\ idx < Len(lines)
    /\ out' = Append(out, LineFrame(lines[idx]))
    /\ org' = Append(org, [frag |-> Len(consumed), line |-> idx, kind |-> "line"])
    /\ idx' = idx + 1
    /\ suspended' = TRUE
    /\ pc' = "loop"
    /\ UNCHANGED <<verdict, creates, consumed, text, lines, staticVars>>

\* variant of YieldLine: for line in reversed(lines[:-1])
YieldLineReversed ==
    /\ pc = "loop"
    /\ idx < Len(lines)
    /\ out' = Append(out, LineFrame(lines[Len(lines) - idx]))
    /\ org' = Append(org, [frag |-> Len(consumed), line |-> Len(lines) - idx, kind |-> "line"])
    /\ suspended' = TRUE
    /\ pc' = "synth"
    /\ UNCHANGED <<verdict, creates, consumed, text, lines, idx, staticVars>>

\* for line in lines[:-1]: yield f"data: {line}\n\n"
YieldLine ==
    /\ pc = "loop"
    /\ idx < Len(lines)
    /\ out' = Append(out, LineFrame(lines[idx]))
    /\ org' = Append(org, [frag |-> Len(consumed), line |-> idx, kind |-> "line"])
    /\ suspended' = TRUE
    /\ pc' = "synth"
    /\ UNCHANGED <<verdict, creates, consumed, text, lines, idx, staticVars>>

\* yield "data:  \n", then the loop moves to the next line
YieldSynthetic ==
    /\ pc = "synth"
    /\ out' = Append(out, SyntheticFrame)
    /\ org' = Append(org, [frag |-> Len(consumed), line |-> idx, kind |-> "synthetic"])
    /\ idx' = idx + 1
    /\ suspended' = TRUE
    /\ pc' = "loop"
    /\ UNCHANGED <<verdict, creates, consumed, text, lines, staticVars>>

\* yield f"data: {lines[-1]}\n\n", then back to the `for chunk` header
YieldLast ==
    /\ pc = "loop"
    /\ idx >= Len(lines)
    /\ out' = Append(out, LineFrame(lines[Len(lines)]))
    /\ org' = Append(org, [frag |-> Len(consumed), line |-> Len(lines), kind |-> "line"])
    /\ suspended' = TRUE
    /\ pc' = "pull"
    /\ UNCHANGED <<verdict, creates, consumed, text, lines, idx, staticVars>>

\* the client goes away: the response stops pulling and the parked
\* generator is closed
Disconnect ==
    /\ pc \in {"pull", "loop", "synth"}
    /\ suspended
    /\ pc' = "closed"
    /\ UNCHANGED <<verdict, creates, consumed, text, lines, idx, suspended, out, org, staticVars>>

----
(* GET /{full_path:path}: serve_nextjs_app over the static directory *)

FaviconIco == <<"f", "a", "v", "i", "c", "o", "n", ".", "i", "c", "o">>

About == <<"a", "b", "o", "u", "t">>

ApiDocs == <<"a", "p", "i", "-", "d", "o", "c", "s">>

Health == <<"h", "e", "a", "l", "t", "h">>

IndexHtml == <<"i", "n", "d", "e", "x", ".", "h", "t", "m", "l">>

\* names an entry of the static directory can have in the model
Paths == {FaviconIco, About, ApiDocs, Health, IndexHtml}

\* os.path.join(a, b) for a relative b
JoinPath(a, b) == a \o <<"/">> \o b

\* paths a GET request can carry
Requests == Paths \cup {JoinPath(About, IndexHtml)}

Kinds == {"absent", "file", "dir"}

\* os.path.isfile(os.path.join(static_path, q))
IsFile(q) ==
    \/ q \in Paths /\ fs[q] = "file"
    \/ \E p \in Paths : q = JoinPath(p, IndexHtml) /\ fs[p] = "dir" /\ holds[p]

\* os.path.isdir(os.path.join(static_path, q))
IsDir(q) == q \in Paths /\ fs[q] = "dir"

\* os.path.exists(os.path.join(static_path, q))
Exists(q) == IsFile(q) \/ IsDir(q)

FileResponse(q) == [kind |-> "file", path |-> q, body |-> ""]

\* {"error": "Not found"}
NotFound == [kind |-> "json", path |-> <<>>, body |-> "Not found"]

\* {"status": "healthy", "service": "consultation-api"}
Healthy == [kind |-> "json", path |-> <<>>, body |-> "healthy"]

NoResponse == [kind |-> "none", path |-> <<>>, body |-> ""]

\* variant of serve_nextjs_app: the root index document is tried before the
\* index document of the directory
serve_root_index_first(p) ==
    IF StartsWith(p, <<"a", "p", "i">>) \/ p = Health THEN NotFound
    ELSE IF IsFile(p) THEN FileResponse(p)
    ELSE IF Exists(IndexHtml) THEN FileResponse(IndexHtml)
    ELSE IF IsDir(p) /\ Exists(JoinPath(p, IndexHtml)) THEN FileResponse(JoinPath(p, IndexHtml))
    ELSE NotFound

\* the body of serve_nextjs_app(full_path)
serve_nextjs_app(p) ==
    IF StartsWith(p, <<"a", "p", "i">>) \/ p = Health THEN NotFound
    ELSE IF IsFile(p) THEN FileResponse(p)
    ELSE IF IsDir(p) /\ Exists(JoinPath(p, IndexHtml)) THEN FileResponse(JoinPath(p, IndexHtml))
    ELSE IF Exists(IndexHtml) THEN FileResponse(IndexHtml)
    ELSE NotFound

\* the route table, in registration order: GET /health is matched by
\* health_check before the catch-all route sees it
Route(p) == IF p = Health THEN Healthy ELSE serve_nextjs_app(p)

\* one GET request for /p
Get(p) ==
    /\ full_path' = p
    /\ resp' = Route(p)
    /\ UNCHANGED <<fs, holds, relayVars>>

----
(* Specifications *)

\* a POST /api request has arrived; the static directory plays no part
Init ==
    /\ pc = "request"
    /\ verdict = "none"
    /\ creates = 0
    /\ consumed = <<>>
    /\ text = None
    /\ lines = <<>>
    /\ idx = 1
    /\ suspended = FALSE
    /\ out = <<>>
    /\ org = <<>>
    /\ fs = [p \in Paths |-> "absent"]
    /\ holds = [p \in Paths |-> FALSE]
    /\ full_path = <<>>
    /\ resp = NoResponse

\* any state of the static directory, before the first GET request; no
\* POST /api request is under way
InitStatic ==
    /\ pc = "request"
    /\ verdict = "none"
    /\ creates = 0
    /\ consumed = <<>>
    /\ text = None
    /\ lines = <<>>
    /\ idx = 1
    /\ suspended = FALSE
    /\ out = <<>>
    /\ org = <<>>
    /\ fs \in [Paths -> Kinds]
    /\ holds \in [Paths -> BOOLEAN]
    /\ \A p \in Paths : holds[p] => fs[p] = "dir"
    /\ full_path = <<>>
    /\ resp = NoResponse

Next ==
    \/ Verify
    \/ Subject
    \/ Create
    \/ CreateRaise
    \/ \E c \in Fragments : NextChunk(c)
    \/ StreamEnd
    \/ StreamRaise
    \/ Test
    \/ YieldLine
    \/ YieldSynthetic
    \/ YieldLast
    \/ Disconnect

NextStatic == \E p \in Requests : Get(p)

\* one POST /api request, from arrival to the end of its stream
Spec == Init /\ [][Next]_vars

\* the same, where a step that can be taken is eventually taken: the
\* response keeps pulling the generator and the stream keeps answering
FairSpec == Spec /\ WF_vars(Next)

\* GET requests against every state of the static directory
StaticSpec == InitStatic /\ [][NextStatic]_vars

----
(* Vocabulary of the properties of the relay *)

\* the chunk carries text: its content is neither missing nor ""
HasText(t) == t # None /\ Len(t) > 0

IsPrefix(a, b) == Len(a) <= Len(b) /\ SubSeq(b, 1, Len(a)) = a

Front(q) == SubSeq(q, 1, Len(q) - 1)

\* the chunks of cs that carry text, in order
NonEmptyOf(cs) == SelectSeq(cs, HasText)

\* the texts of cs, concatenated (a chunk without content adds nothing)
RECURSIVE ConcatText(_)
ConcatText(cs) ==
    IF cs = <<>> THEN <<>>
    ELSE (IF Head(cs) = None THEN <<>> ELSE Head(cs)) \o ConcatText(Tail(cs))

\* the frames of every text of ts, one text after the other
RECURSIVE Frames(_)
Frames(ts) == IF ts = <<>> THEN <<>> ELSE FramesOf(Head(ts)) \o Frames(Tail(ts))

NumNL(s) == Cardinality({i \in 1..Len(s) : s[i] = NL})

\* ls[1] + "\n" + ls[2] + ... + "\n" + ls[Len(ls)]
RECURSIVE JoinNL(_)
JoinNL(ls) ==
    IF Len(ls) = 0 THEN <<>>
    ELSE IF Len(ls) = 1 THEN ls[1]
    ELSE ls[1] \o <<NL>> \o JoinNL(Tail(ls))

\* a frame without its "data: " prefix
StripPrefix(f) == IF StartsWith(f, DataPrefix) THEN SubSeq(f, Len(DataPrefix) + 1, Len(f)) ELSE f

\* a frame without the newlines that end it
RECURSIVE StripTerminator(_)
StripTerminator(f) ==
    IF f # <<>> /\ f[Len(f)] = NL THEN StripTerminator(Front(f)) ELSE f

Payload(f) == StripTerminator(StripPrefix(f))

\* what a reader of the frames recovers from one frame: a newline from the
\* blank-continuation frame "data:  \n", the payload from any other
DecodeFrame(f) == IF f = SyntheticFrame THEN <<NL>> ELSE Payload(f)

RECURSIVE Decode(_)
Decode(fr) == IF fr = <<>> THEN <<>> ELSE DecodeFrame(Head(fr)) \o Decode(Tail(fr))

\* the frames yielded for chunk n, in the order they were yielded
RECURSIVE PickFrag(_, _)
PickFrag(n, i) ==
    IF i > Len(out) THEN <<>>
    ELSE (IF org[i].frag = n THEN <<out[i]>> ELSE <<>>) \o PickFrag(n, i + 1)

\* the generator stands between two chunks, or ended at the `for` header
AtBoundary == pc \in {"pull", "done", "failed"}

\* every frame of chunk n has been yielded
Relayed(n) == n < Len(consumed) \/ (n = Len(consumed) /\ AtBoundary)

\* index of the last chunk of cs that carries text, 0 when there is none
LastHasText(cs) ==
    LET S == {n \in 1..Len(cs) : HasText(cs[n])}
    IN  IF S = {} THEN 0 ELSE CHOOSE n \in S : \A m \in S : m <= n

----
(* C1 *)

\* C1: whenever the generator stands between two chunks (or has ended),
\* decoding the frames yielded so far -- "data: " prefix and terminating
\* newlines stripped, each blank-continuation frame read as a newline,
\* the results concatenated -- gives exactly the concatenation of the
\* texts of the chunks consumed so far.
RoundTrip == AtBoundary => Decode(out) = ConcatText(consumed)

\* a finished stream that relayed a single-space fragment and a fragment
\* that starts with a newline
RoundTripWitness ==
    /\ pc = "done"
    /\ consumed = << <<" ">>, <<NL, " ">> >>
    /\ Len(out) = 4

----
(* C2 *)

\* f is "data: " + payload + "\n\n" for a payload that holds no newline
IsBlankLineTerminated(f) ==
    /\ StartsWith(f, DataPrefix)
    /\ Len(f) >= Len(DataPrefix) + 2
    /\ f[Len(f)] = NL
    /\ f[Len(f) - 1] = NL
    /\ ~HasNL(SubSeq(f, Len(DataPrefix) + 1, Len(f) - 2))

\* C2 as stated: every frame written to the response body, line frames and
\* blank-continuation frames alike, is "data: " + payload + "\n\n" with a
\* payload free of newlines.
WireFramingAllFrames == \A i \in 1..Len(out) : IsBlankLineTerminated(out[i])

\* C2 as amended: every line frame is "data: " + payload + "\n\n" with a
\* payload free of newlines; every blank-continuation frame is exactly
\* "data:  \n", ended by ONE newline, and the frame that follows it is the
\* line frame of the next line of the same fragment.
WireFraming ==
    \A i \in 1..Len(out) :
        /\ org[i].kind = "line" => IsBlankLineTerminated(out[i])
        /\ org[i].kind = "synthetic" =>
             /\ out[i] = DataPrefix \o <<" ", NL>>
             /\ ~IsBlankLineTerminated(out[i])
             /\ i < Len(out) =>
                  /\ org[i + 1].kind = "line"
                  /\ org[i + 1].frag = org[i].frag
                  /\ org[i + 1].line = org[i].line + 1

\* a blank-continuation frame was written, and the next line after it
WireFramingWitness ==
    \E i \in 1..Len(out) :
        /\ org[i].kind = "synthetic"
        /\ i < Len(out)
        /\ HasNL(consumed[org[i].frag])

----
(* C3 *)

\* the lines carried by the odd frames of seg
LinesIn(seg) == [i \in 1..((Len(seg) + 1) \div 2) |-> Payload(seg[2 * i - 1])]

\* C3: for every relayed non-empty fragment with k newlines, exactly 2k+1
\* frames were yielded for it; the odd ones are the line frames of lines
\* L0..Lk, which hold no newline and joined by newlines give the fragment;
\* each even one is a blank-continuation frame carrying a single space.
\* So a line frame ends the sequence and a fragment without newline has
\* one frame.
PerFragmentFrames ==
    \A n \in 1..Len(consumed) :
        (HasText(consumed[n]) /\ Relayed(n)) =>
            LET seg == PickFrag(n, 1)
                k == NumNL(consumed[n])
                L == LinesIn(seg)
            IN  /\ Len(seg) = 2 * k + 1
                /\ Len(L) = k + 1
                /\ \A i \in 1..(k + 1) : seg[2 * i - 1] = LineFrame(L[i]) /\ ~HasNL(L[i])
                /\ JoinNL(L) = consumed[n]
                /\ \A i \in 1..k :
                     /\ StartsWith(seg[2 * i], DataPrefix)
                     /\ Payload(seg[2 * i]) = <<" ">>

\* "A\nB\nC" was relayed as data: A, data:  , data: B, data:  , data: C
PerFragmentFramesWitness ==
    /\ consumed = <<ExampleFragment>>
    /\ pc = "pull"
    /\ Len(out) = 5
    /\ Payload(out[1]) = <<"A">>
    /\ Payload(out[2]) = <<" ">>
    /\ Payload(out[3]) = <<"B">>
    /\ Payload(out[4]) = <<" ">>
    /\ Payload(out[5]) = <<"C">>

----
(* C4 *)

\* C4: no frame comes from a chunk whose text is "" or None, and between
\* chunks the frames yielded are the frames of the consumed chunks with
\* the empty ones removed.
EmptySilent ==
    /\ \A i \in 1..Len(out) : HasText(consumed[org[i].frag])
    /\ \A n \in 1..Len(consumed) : ~HasText(consumed[n]) => PickFrag(n, 1) = <<>>
    /\ AtBoundary => out = Frames(NonEmptyOf(consumed))

\* an empty text was consumed before a text of one line, and the only
\* frame yielded is the frame of that line
EmptySilentWitness ==
    /\ pc = "done"
    /\ consumed = <<<<>>, <<"A">> >>
    /\ out = <<LineFrame(<<"A">>)>>

----
(* C5 *)

\* place of a frame inside the frames of its chunk
SplitOrder(o) == 2 * o.line - (IF o.kind = "line" THEN 1 ELSE 0)

\* C5: frames are yielded in chunk order, and inside a chunk in split
\* order; each frame is the frame of the line its origin names, and the
\* frames yielded so far are an initial part of the frames of the consumed
\* non-empty chunks taken one chunk after the other.
Ordering ==
    /\ \A i, j \in 1..Len(out) :
         i < j =>
            \/ org[i].frag < org[j].frag
            \/ org[i].frag = org[j].frag /\ SplitOrder(org[i]) < SplitOrder(org[j])
    /\ \A i \in 1..Len(out) :
         /\ org[i].line <= NumNL(consumed[org[i].frag]) + 1
         /\ org[i].kind = "line" =>
              Payload(out[i]) = Split(consumed[org[i].frag])[org[i].line]
    /\ IsPrefix(out, Frames(NonEmptyOf(consumed)))

\* two multi-line fragments were relayed one after the other
OrderingWitness ==
    /\ pc = "done"
    /\ consumed = <<ExampleFragment, <<"A", NL>> >>
    /\ Len(out) = 8
    /\ org[5].frag = 1
    /\ org[6].frag = 2

----
(* C10 *)

\* C10: a chunk is pulled only once every frame of the chunks before it
\* has been yielded; the generator holds the text of the last chunk pulled
\* and no other; and what has been yielded of the current chunk is an
\* initial part of the frames of its own text alone.
Incremental ==
    LET earlier == Frames(NonEmptyOf(Front(consumed)))
    IN  /\ IsPrefix(earlier, out)
        /\ consumed # <<>> =>
             /\ text = consumed[Len(consumed)]
             /\ \E m \in 0..(2 * NumNL(text) + 1) :
                  /\ HasText(text) \/ m = 0
                  /\ out = earlier \o SubSeq(FramesOf(text), 1, m)
        /\ \A n \in 1..Len(consumed) :
             (HasText(consumed[n]) /\ Relayed(n)) => PickFrag(n, 1) = FramesOf(consumed[n])

\* the second chunk has just been pulled, the three frames of the first
\* all yielded before
IncrementalWitness ==
    /\ pc = "test"
    /\ Len(consumed) = 2
    /\ consumed[1] = <<"A", NL>>
    /\ out = FramesOf(consumed[1])
    /\ Len(out) = 3

----
(* C6 *)

\* C6: the Completion Source is invoked only for a request whose
\* credential the verifier accepted; a request the verifier rejected is
\* declined with the Completion Source never invoked and no frame yielded.
AuthGate ==
    /\ creates > 0 => verdict = "accept"
    /\ out # <<>> => verdict = "accept"
    /\ consumed # <<>> => verdict = "accept"
    /\ verdict = "reject" => pc = "declined" /\ creates = 0 /\ out = <<>>

\* a request the verifier rejected
AuthGateWitness == verdict = "reject" /\ pc = "declined" /\ creates = 0

----
(* C7 *)

\* C7: when the stream raises, the frames yielded are exactly the frames
\* of the chunks it delivered before (no error frame, no marker), the
\* Completion Source has been invoked once, and from then on nothing
\* changes: no further frame, no second invocation.
UpstreamFailure ==
    [][ /\ pc' = "failed" =>
             /\ out' = Frames(NonEmptyOf(consumed'))
             /\ creates' = 1
        /\ pc = "failed" => pc' = "failed" /\ out' = out /\ creates' = creates
      ]_vars

\* the stream raised after delivering one fragment of two lines
UpstreamFailureWitness ==
    /\ pc = "failed"
    /\ consumed = << <<"A", NL>> >>
    /\ Len(out) = 3

----
(* C8 *)

\* C8: the request eventually finishes; once it has, no frame is added;
\* and when it has, either nothing was yielded and no chunk carried text,
\* or the last frame yielded is one of the frames of the last chunk that
\* carried text -- its last frame when the stream ended by itself.
Termination ==
    /\ <>Finished
    /\ [][Finished => Finished' /\ out' = out]_vars
    /\ [](Finished =>
            LET n == LastHasText(consumed)
            IN  IF n = 0 THEN out = <<>>
                ELSE /\ out # <<>>
                     /\ org[Len(org)].frag = n
                     /\ \E i \in 1..(2 * NumNL(consumed[n]) + 1) :
                          out[Len(out)] = FramesOf(consumed[n])[i]
                     /\ pc = "done" =>
                          out[Len(out)] = LineFrame(Split(consumed[n])[NumNL(consumed[n]) + 1]))

\* the stream ended after a fragment of two lines and an empty one
TerminationWitness ==
    /\ pc = "done"
    /\ consumed = << <<"A", NL>>, <<>> >>
    /\ out = <<LineFrame(<<"A">>), SyntheticFrame, LineFrame(<<>>)>>

----
(* C9 *)

\* the resolution order of the static directory: the file, else the index
\* document of the directory, else the root index document, else not found
ResolvedInOrder(p, r) ==
    /\ IsFile(p) => r = FileResponse(p)
    /\ (~IsFile(p) /\ IsDir(p) /\ Exists(JoinPath(p, IndexHtml))) =>
         r = FileResponse(JoinPath(p, IndexHtml))
    /\ (~IsFile(p) /\ ~(IsDir(p) /\ Exists(JoinPath(p, IndexHtml))) /\ Exists(IndexHtml)) =>
         r = FileResponse(IndexHtml)
    /\ (~IsFile(p) /\ ~(IsDir(p) /\ Exists(JoinPath(p, IndexHtml))) /\ ~Exists(IndexHtml)) =>
         r = NotFound

\* the paths the catch-all handler refuses to resolve
Skipped(p) == StartsWith(p, <<"a", "p", "i">>) \/ p = Health

====
